---- MODULE Spec2Model ----
(***************************************************************************)
(* Model of server.js: the Express application that turns a GitHub profile *)
(* into an HTML preview (/preview) or a PDF (/pdf).                        *)
(*                                                                         *)
(* Every request handler is an async function; it runs atomically up to   *)
(* each `await`, where other requests' handlers may run.  One action of    *)
(* the model is one such atomic segment: the resumption of a handler with  *)
(* the outcome of the awaited call (chosen by the environment: the GitHub  *)
(* API, ejs, puppeteer) up to the next await or the end of the handler.    *)
(* A call of fetch and the reading of the body of its answer are two       *)
(* awaits, and two steps.  An async function returning to the caller that  *)
(* awaits it is part of the step in which it returns, except for           *)
(* getPuppeteer, whose write of the shared cachedPuppeteer is a step apart *)
(* from the resumption of the handler that awaits it.                      *)
(*                                                                         *)
(* The program gives requests no identity: the requests being handled are  *)
(* a bag of handler activations, each a record of the handler's position,  *)
(* its req, its res, its local variables and what has been observed of it. *)
(*                                                                         *)
(* Strings are sequences of tokens: a character, or a literal piece of a   *)
(* template literal (printable ASCII).  A character outside ASCII is       *)
(* written as the token of its code point ("U+0100").                      *)
(*                                                                         *)
(* Spec runs NumReqs interleaved requests, with the repositories endpoint  *)
(* answering a sample array.  SpecRepos runs one request up to the sort of *)
(* buildTemplateData, with the endpoint answering any array of up to       *)
(* MaxRepos repositories.                                                  *)
(***************************************************************************)
EXTENDS Integers, Sequences, FiniteSets, Bags, TLC

\* ---------------------------------------------------------------- bounds
\* Number of HTTP requests the server receives (they may interleave).
NumReqs == 2
\* Longest array the repositories endpoint returns in SpecRepos.
MaxRepos == 11

\* ---------------------------------------------------------------- inputs
Routes == {"preview", "pdf"}

\* req.query.username: absent (undefined), the empty string, a name, or a
\* name with a line feed in it (?username=o%0Ac).
Usernames == { <<>>, <<"o", "c">>, <<"o", "\n", "c">> }
Queries == { [has |-> FALSE, username |-> <<>>] }
             \cup { [has |-> TRUE, username |-> u] : u \in Usernames }

\* The queries sent to a route.  The name with a line feed is sent to /pdf,
\* the route on which the name is written to a header.
QueriesOf(rt) ==
    IF rt = "pdf" THEN Queries
    ELSE { q \in Queries : q.username # << "o", "\n", "c" >> }

\* What the GitHub API answers to a call of fetchGitHubData: an HTTP status
\* with the JSON the caller expects ("http"), a 200 whose body cannot be
\* parsed (response.json() rejects), a 200 whose body is the JSON null, or
\* no answer at all (fetch rejects).  fetch resolves with the status
\* (kind "http") or rejects; response.json() then tells the kind of body.
ApiResponses == { [kind |-> "http", status |-> 200],
                  [kind |-> "http", status |-> 404],
                  [kind |-> "http", status |-> 403],
                  [kind |-> "badjson", status |-> 200],
                  [kind |-> "nulljson", status |-> 200],
                  [kind |-> "neterr", status |-> 0] }

\* The repositories endpoint may also answer with JSON that is no array.
RepoResponses == ApiResponses \cup { [kind |-> "notarray", status |-> 200] }

\* The kinds of body of a 2xx answer.
BodyKinds == { "http", "badjson", "nulljson", "notarray" }

\* A repository of the repositories endpoint's answer.
Repo(name, stars) == [name |-> name, stargazers_count |-> stars]

\* The array the repositories endpoint answers with in Spec.
SampleArrays == { << Repo(1, 1), Repo(2, 0), Repo(3, 1) >> }

\* What happens inside fetchUserReadmeHtml: at its fetch (a non-2xx
\* answer, a network error, or a 2xx answer whose body is then read) ...
ReadmeFetchOutcomes == { "notok", "neterr", "fetched" }
\* ... and once res.json() is settled.
ReadmeBodyOutcomes == { "badjson", "nocontent", "markedThrows",
                        "sanitizeThrows", "ok" }
ReadmeOutcomes == (ReadmeFetchOutcomes \ {"fetched"}) \cup ReadmeBodyOutcomes

\* An awaited library call resolves or rejects.
Outcomes == { "ok", "throw" }

VARIABLES
    cachedPuppeteer, \* module-level cache of the imported puppeteer module
    handlers,        \* the bag of handler activations, one per request
    apiRepos,        \* SpecRepos: the array the repositories endpoint is
                     \* about to answer with
    processState     \* the Node process: "running" or "exited"

vars == << cachedPuppeteer, handlers, apiRepos, processState >>

NoAnswer == [kind |-> "none", status |-> 0]
NoReadme == [outcome |-> "none", html |-> "unset"]
NoError == << >>

\* The response object of express before the handler touches it.
FreshRes == [ statusCode  |-> 200,
              headersSent |-> FALSE,
              contentType |-> "",
              disposition |-> << >>,
              body        |-> << >>,
              lateWrite   |-> FALSE ]

\* A request that has not arrived yet.
Idle == [ pc        |-> "idle",    \* the await the handler is suspended at
          route     |-> "preview", \* "preview" or "pdf"
          query     |-> [has |-> FALSE, username |-> <<>>],   \* req.query
          calls     |-> [profile |-> 0, repos |-> 0, readme |-> 0],
                                   \* upstream calls issued, per endpoint
          answers   |-> [profile |-> NoAnswer, repos |-> NoAnswer],
                                   \* what the API answered, per endpoint
          reposData |-> << >>,     \* buildTemplateData's reposData
          topRepos  |-> << >>,     \* buildTemplateData's topRepos
          readme    |-> NoReadme,  \* outcome, result of fetchUserReadmeHtml
          uses      |-> [render |-> 0, launch |-> 0, close |-> 0],
                                   \* library calls made
          browser   |-> "none",    \* "none", "open" (launched), "closed"
          pending   |-> NoError,   \* error thrown in try, held by finally
          failed    |-> {},        \* stages of the pipeline that failed
          res       |-> FreshRes,  \* the HTTP response object
          resumed   |-> FALSE ]    \* resumed in the last turn of the process

Init ==
    /\ cachedPuppeteer = "null"
    /\ handlers = [h \in {Idle} |-> NumReqs]
    /\ apiRepos = << >>
    /\ processState = "running"

\* The requests, in whatever state.
Requests == BagToSet(handlers)

\* The await of `await getPuppeteer()` once getPuppeteer has returned is
\* settled by promise jobs alone; the others wait for the outside world.
MicrotaskOnly(at) == at = "awaitGetPuppeteer"

\* The handler activation rq is resumed and becomes new.  While the process
\* runs the event loop resumes any handler whose await is settled.  Once a
\* rejection went unhandled the process ends when the promise jobs have run
\* out: until then a handler is resumed if what it awaits was settled in
\* the same turn of the event loop (which can be so once, what it awaits
\* next being just started) or is settled by promise jobs alone.
Becomes(rq, new) ==
    /\ \/ processState = "running"
       \/ /\ processState = "exiting"
          /\ rq.pc # "idle"
          /\ ~rq.resumed \/ MicrotaskOnly(rq.pc)
    /\ handlers' = (handlers (-) SetToBag({rq}))
                     (+) SetToBag({[new EXCEPT !.resumed = processState # "running"]})

\* ------------------------------------------------------------- helpers

\* (variant: only an absent parameter is refused)
NotUsernameAbsentOnly(q) == ~q.has

\* !username
NotUsername(q) == ~q.has \/ q.username = << >>

\* (variant: response.ok is not looked at)
fetchGitHubDataNoStatusCheck(resp) ==
    IF resp.kind = "neterr" THEN << "request failed" >>
    ELSE IF resp.kind = "badjson" THEN << "invalid json response body" >>
    ELSE NoError

\* fetchGitHubData: the error thrown for a response, NoError when it returns
\* the parsed body.
fetchGitHubData(resp) ==
    IF resp.kind = "neterr" THEN << "request failed" >>
    ELSE IF ~(resp.status >= 200 /\ resp.status <= 299)
         THEN IF resp.status = 404
              THEN << "User not found" >>
              ELSE << "GitHub API error: ", ToString(resp.status) >>
    ELSE IF resp.kind = "badjson" THEN << "invalid json response body" >>
    ELSE NoError

\* (variant: no try/catch around the body)
fetchUserReadmeHtmlNoCatch(outcome) ==
    IF outcome = "ok" THEN [threw |-> FALSE, value |-> "safeHtml"]
    ELSE IF outcome \in {"notok", "nocontent"} THEN [threw |-> FALSE, value |-> ""]
    ELSE [threw |-> TRUE, value |-> ""]

\* fetchUserReadmeHtml: whether it throws, and the value it returns.
fetchUserReadmeHtml(outcome) ==
    IF outcome = "ok"
    THEN [threw |-> FALSE, value |-> "safeHtml"]
    ELSE [threw |-> FALSE, value |-> ""]

\* res.status(code).send(text) of express: a response already sent cannot be
\* written again (send throws ERR_HTTP_HEADERS_SENT, the client keeps what
\* it got).  send() keeps a Content-Type that is already set.
Send(rs, code, text) ==
    IF rs.headersSent
    THEN [rs EXCEPT !.lateWrite = TRUE]
    ELSE [rs EXCEPT !.statusCode = code,
                    !.headersSent = TRUE,
                    !.contentType = IF rs.contentType = "" THEN "text/html"
                                    ELSE rs.contentType,
                    !.body = text]

\* The catch block of a handler.
CatchPrefix(rt) == IF rt = "preview" THEN << "Error generating preview: " >>
                   ELSE << "Error generating PDF: " >>

\* (variant: the 404 message does not name the user)
CatchNoName(rs, rt, username, message) ==
    IF message = << "User not found" >>
    THEN Send(rs, 404, << "GitHub user not found" >>)
    ELSE Send(rs, 500, CatchPrefix(rt) \o message)

Catch(rs, rt, username, message) ==
    IF message = << "User not found" >>
    THEN Send(rs, 404, << "GitHub user \"" >> \o username \o << "\" not found" >>)
    ELSE Send(rs, 500, CatchPrefix(rt) \o message)

\* The handler rq ends in its catch block with error `message`, thrown by
\* `stage`; its local variables are gone.
Fail(rq, stage, message) ==
    [rq EXCEPT !.res = Catch(rq.res, rq.route, rq.query.username, message),
               !.failed = @ \cup {stage},
               !.pc = "done",
               !.reposData = << >>,
               !.topRepos = << >>,
               !.readme = NoReadme]

\* The characters of the model and their code points.
Alphabet == { "\t", "\n", "\r", " ", "c", "o", "U+007F", "U+00E9", "U+0100" }
CodeOf(ch) ==
    CASE ch = "\t" -> 9
      [] ch = "\n" -> 10
      [] ch = "\r" -> 13
      [] ch = " " -> 32
      [] ch = "c" -> 99
      [] ch = "o" -> 111
      [] ch = "U+007F" -> 127
      [] ch = "U+00E9" -> 233
      [] ch = "U+0100" -> 256

\* Node accepts in a header value the characters \t, \x20-\x7e, \x80-\xff.
ValidHeaderCode(n) ==
    n = 9 \/ (n >= 32 /\ n <= 126) \/ (n >= 128 /\ n <= 255)

\* res.setHeader throws ERR_INVALID_CHAR for a value with any other
\* character in it, as the one made for Content-Disposition may have.
InvalidHeaderValue(s) ==
    \E i \in 1..Len(s) : s[i] \in Alphabet /\ ~ValidHeaderCode(CodeOf(s[i]))

\* `attachment; filename="${username}-github-resume.pdf"`
Disposition(username) ==
    << "attachment; filename=\"" >> \o username \o << "-github-resume.pdf\"" >>

\* try { ... } finally { await browser.close() }: the finally block runs
\* whatever the outcome of the try block.
FinallyRuns(outcome) == TRUE

\* getPuppeteer line 9: the cached module is returned when there is one.
IsCached(cache) == cache # "null"

\* getPuppeteer line 11: cachedPuppeteer = mod.default || mod
CacheAfterImport(cache, mod) == mod

\* ------------------------------------------- buildTemplateData, step 3

TopN == 10
\* The stargazers_count values of SpecRepos.
StarCounts == {0, 1}

\* (variant: ascending)
compareFnAscending(a, b) == a.stargazers_count - b.stargazers_count

\* (a, b) => b.stargazers_count - a.stargazers_count
compareFn(a, b) == b.stargazers_count - a.stargazers_count

\* Array.prototype.sort is stable: an element goes after every element
\* already placed that the comparator does not put after it.
RECURSIVE InsertSorted(_, _)
InsertSorted(s, x) ==
    IF s = << >> THEN << x >>
    ELSE IF compareFn(s[Len(s)], x) > 0
         THEN Append(InsertSorted(SubSeq(s, 1, Len(s) - 1), x), s[Len(s)])
         ELSE Append(s, x)

RECURSIVE sort(_)
sort(s) ==
    IF s = << >> THEN << >>
    ELSE InsertSorted(sort(SubSeq(s, 1, Len(s) - 1)), s[Len(s)])

\* .slice(0, 10)
slice(s) == SubSeq(s, 1, IF Len(s) < TopN THEN Len(s) ELSE TopN)

\* .map(repo => ({ name: repo.name, stars: repo.stargazers_count, ... }))
mapRepo(repo) == [name |-> repo.name, stars |-> repo.stargazers_count]

\* sorted.slice(0, 10).map(...)
TopRepos(sorted) ==
    LET top == slice(sorted)
    IN  [i \in 1..Len(top) |-> mapRepo(top[i])]

\* ------------------------------------------------------------- actions

\* A request arrives; the handler runs to its first await, the profile call
\* of buildTemplateData, or answers 400.
Receive(rq, rt, q) ==
    /\ rq.pc = "idle"
    /\ Becomes(rq,
         IF NotUsername(q)
         THEN [rq EXCEPT !.route = rt,
                         !.query = q,
                         !.res = Send(@, 400, << "Username parameter is required" >>),
                         !.pc = "done"]
         ELSE [rq EXCEPT !.route = rt,
                         !.query = q,
                         !.calls.profile = @ + 1,
                         !.pc = "awaitProfile"])
    /\ UNCHANGED << cachedPuppeteer, apiRepos, processState >>

\* fetchGitHubData for the profile: fetch is settled.  A rejection or a
\* non-2xx status throws, out of buildTemplateData; otherwise the body of
\* the response is read (response.json()).
ProfileResp(rq, resp) ==
    /\ rq.pc = "awaitProfile"
    /\ resp.kind \in {"http", "neterr"}
    /\ LET got == [rq EXCEPT !.answers.profile = resp]
       IN  Becomes(rq,
             IF fetchGitHubData(resp) # NoError
             THEN Fail(got, "profile", fetchGitHubData(resp))
             ELSE [got EXCEPT !.pc = "awaitProfileJson"])
    /\ UNCHANGED << cachedPuppeteer, apiRepos, processState >>

\* fetchGitHubData for the profile: response.json() is settled, with a body
\* of kind `kind`.  buildTemplateData gets userData (an object, or null when
\* the body is the JSON null) and issues the repositories call, or the
\* rejection throws.
ProfileJson(rq, kind) ==
    /\ rq.pc = "awaitProfileJson"
    /\ LET resp == [kind |-> kind, status |-> rq.answers.profile.status]
           got == [rq EXCEPT !.answers.profile = resp]
       IN  /\ resp \in ApiResponses
           /\ Becomes(rq,
                 IF fetchGitHubData(resp) # NoError
                 THEN Fail(got, "profile", fetchGitHubData(resp))
                 ELSE [got EXCEPT !.calls.repos = @ + 1,
                                  !.pc = "awaitRepos"])
    /\ UNCHANGED << cachedPuppeteer, apiRepos, processState >>

\* fetchGitHubData for the repositories: fetch is settled.
ReposResp(rq, resp) ==
    /\ rq.pc = "awaitRepos"
    /\ resp.kind \in {"http", "neterr"}
    /\ LET got == [rq EXCEPT !.answers.repos = resp]
       IN  Becomes(rq,
             IF fetchGitHubData(resp) # NoError
             THEN Fail(got, "repos", fetchGitHubData(resp))
             ELSE [got EXCEPT !.pc = "awaitReposJson"])
    /\ UNCHANGED << cachedPuppeteer, apiRepos, processState >>

\* fetchGitHubData for the repositories: response.json() is settled.  It
\* rejects, or buildTemplateData gets reposData: null or something else
\* that has no sort (a TypeError), or the array `body`, which is sorted in
\* place, cut and mapped; then the README call is issued.
ReposJson(rq, kind, body) ==
    /\ rq.pc = "awaitReposJson"
    /\ LET resp == [kind |-> kind, status |-> rq.answers.repos.status]
           got == [rq EXCEPT !.answers.repos = resp]
           sorted == sort(body)
       IN  /\ resp \in RepoResponses
           /\ Becomes(rq,
                 IF fetchGitHubData(resp) # NoError
                 THEN Fail(got, "repos", fetchGitHubData(resp))
                 ELSE IF resp.kind = "nulljson"
                 THEN Fail(got, "repos",
                           << "Cannot read properties of null (reading 'sort')" >>)
                 ELSE IF resp.kind = "notarray"
                 THEN Fail(got, "repos", << "reposData.sort is not a function" >>)
                 ELSE [got EXCEPT !.reposData = sorted,
                                  !.topRepos = TopRepos(sorted),
                                  !.calls.readme = @ + 1,
                                  !.pc = "awaitReadme"])
    /\ UNCHANGED << cachedPuppeteer, apiRepos, processState >>

\* buildTemplateData: fetchUserReadmeHtml has completed with `outcome`; the
\* template data is built from userData (line 124 throws a TypeError when
\* userData is null); the handler gets it and calls ejs.renderFile.
ReadmeReturns(rq, outcome) ==
    IF fetchUserReadmeHtml(outcome).threw
    THEN Fail(rq, "readme", << "readme failed" >>)
    ELSE IF rq.answers.profile.kind = "nulljson"
    THEN Fail(rq, "build",
              << "Cannot read properties of null (reading 'login')" >>)
    ELSE [rq EXCEPT !.readme = [outcome |-> outcome,
                                html |-> fetchUserReadmeHtml(outcome).value],
                    !.uses.render = @ + 1,
                    !.pc = "awaitRender"]

\* fetchUserReadmeHtml: fetch is settled.  On a rejection or a non-2xx
\* status the function completes; otherwise the body is read (res.json()).
ReadmeResp(rq, outcome) ==
    /\ rq.pc = "awaitReadme"
    /\ Becomes(rq,
         IF outcome = "fetched"
         THEN [rq EXCEPT !.pc = "awaitReadmeJson"]
         ELSE ReadmeReturns(rq, outcome))
    /\ UNCHANGED << cachedPuppeteer, apiRepos, processState >>

\* fetchUserReadmeHtml: res.json() is settled, and the rest of the function
\* runs (content check, marked, sanitize-html).
ReadmeJson(rq, outcome) ==
    /\ rq.pc = "awaitReadmeJson"
    /\ Becomes(rq, ReadmeReturns(rq, outcome))
    /\ UNCHANGED << cachedPuppeteer, apiRepos, processState >>

\* ejs.renderFile completes.  /preview sends the html; /pdf calls
\* getPuppeteer, which returns the cached module or imports it.  The
\* template data is not read after the rendering, and the model forgets it
\* here.
RenderDone(rq, outcome) ==
    /\ rq.pc = "awaitRender"
    /\ LET rendered == [rq EXCEPT !.reposData = << >>,
                                  !.topRepos = << >>,
                                  !.readme = NoReadme]
       IN  Becomes(rq,
             IF outcome = "throw"
             THEN Fail(rq, "render", << "render failed" >>)
             ELSE IF rq.route = "preview"
             THEN [rendered EXCEPT !.res = Send(@, @.statusCode, << "html" >>),
                                   !.pc = "done"]
             ELSE [rendered EXCEPT !.pc = IF IsCached(cachedPuppeteer)
                                          THEN "awaitGetPuppeteer"
                                          ELSE "awaitImport"])
    /\ UNCHANGED << cachedPuppeteer, apiRepos, processState >>

\* getPuppeteer: import('puppeteer') completes; the module is cached and
\* returned.
ImportDone(rq, outcome) ==
    /\ rq.pc = "awaitImport"
    /\ IF outcome = "throw"
       THEN /\ Becomes(rq, Fail(rq, "import", << "import failed" >>))
            /\ UNCHANGED cachedPuppeteer
       ELSE /\ cachedPuppeteer' = CacheAfterImport(cachedPuppeteer, "puppeteer")
            /\ Becomes(rq, [rq EXCEPT !.pc = "awaitGetPuppeteer"])
    /\ UNCHANGED << apiRepos, processState >>

\* The handler resumes from `await getPuppeteer()` and calls
\* puppeteer.launch.
GetPuppeteerDone(rq) ==
    /\ rq.pc = "awaitGetPuppeteer"
    /\ Becomes(rq, [rq EXCEPT !.uses.launch = @ + 1,
                              !.pc = "awaitLaunch"])
    /\ UNCHANGED << cachedPuppeteer, apiRepos, processState >>

\* puppeteer.launch completes; on success the try block is entered and
\* browser.newPage is called.
LaunchDone(rq, outcome) ==
    /\ rq.pc = "awaitLaunch"
    /\ Becomes(rq,
         IF outcome = "throw"
         THEN Fail(rq, "launch", << "launch failed" >>)
         ELSE [rq EXCEPT !.browser = "open",
                         !.pc = "awaitNewPage"])
    /\ UNCHANGED << cachedPuppeteer, apiRepos, processState >>

\* A statement of the try block threw `message`: the finally block calls
\* browser.close and holds the error until close completes.
Unwind(rq, outcome, stage, message) ==
    IF FinallyRuns(outcome)
    THEN [rq EXCEPT !.failed = @ \cup {stage},
                    !.uses.close = @ + 1,
                    !.pending = message,
                    !.pc = "awaitClose"]
    ELSE [rq EXCEPT !.failed = @ \cup {stage},
                    !.res = Catch(@, rq.route, rq.query.username, message),
                    !.pc = "done"]

\* One of the awaited page calls of the try block completes:
\* newPage, setContent, emulateMediaType.
PageStep(rq, here, next, outcome) ==
    /\ rq.pc = here
    /\ Becomes(rq,
         IF outcome = "throw"
         THEN Unwind(rq, outcome, here, << here, " failed" >>)
         ELSE [rq EXCEPT !.pc = next])
    /\ UNCHANGED << cachedPuppeteer, apiRepos, processState >>

NewPageDone(rq, outcome) == PageStep(rq, "awaitNewPage", "awaitSetContent", outcome)
SetContentDone(rq, outcome) == PageStep(rq, "awaitSetContent", "awaitEmulate", outcome)
EmulateDone(rq, outcome) == PageStep(rq, "awaitEmulate", "awaitPdf", outcome)

\* page.pdf completes; on success the response is written (Content-Type,
\* then Content-Disposition, which setHeader may refuse, then res.end), and
\* in every case the finally block calls browser.close.
PdfDone(rq, outcome) ==
    /\ rq.pc = "awaitPdf"
    /\ Becomes(rq,
         IF outcome = "throw"
         THEN Unwind(rq, outcome, "awaitPdf", << "awaitPdf", " failed" >>)
         ELSE IF InvalidHeaderValue(Disposition(rq.query.username))
         THEN [rq EXCEPT !.res.contentType = "application/pdf",
                         !.failed = @ \cup {"write"},
                         !.uses.close = @ + 1,
                         !.pending = << "Invalid character in header content [\"Content-Disposition\"]" >>,
                         !.pc = "awaitClose"]
         ELSE [rq EXCEPT !.res.contentType = "application/pdf",
                         !.res.disposition = Disposition(rq.query.username),
                         !.res.headersSent = TRUE,
                         !.res.body = << "pdf" >>,
                         !.uses.close = @ + 1,
                         !.pc = "awaitClose"])
    /\ UNCHANGED << cachedPuppeteer, apiRepos, processState >>

\* What the dispatcher that called the handler does with the promise the
\* handler returned: it handles a rejection (passes it to the error
\* middleware), or it ignores the promise, and a rejection is then an
\* unhandled rejection, on which Node ends the process.
Dispatchers == { "handles", "ignores" }

\* The catch block itself throws when res.status(...).send(...) is called
\* on a response already sent; the handler's promise is then rejected.
HandlerRejects(rs) == rs.headersSent

\* The process after a handler ended: with an unhandled rejection it is
\* about to end.  (One server has one dispatcher: a process that has
\* survived a rejected handler survives the next.)
ProcessAfter(state, rejected, dispatch, survived) ==
    IF rejected /\ dispatch = "ignores" /\ ~survived THEN "exiting" ELSE state

\* browser.close completes.  If it throws, its error replaces the one held;
\* an error leaves the outer try and reaches the catch block.  When the
\* catch block throws in its turn the handler's promise is rejected, and
\* the process is about to end unless the dispatcher handles the rejection.
CloseDone(rq, outcome, dispatch) ==
    /\ rq.pc = "awaitClose"
    /\ Becomes(rq,
         IF outcome = "throw"
         THEN Fail([rq EXCEPT !.pending = NoError], "close", << "close failed" >>)
         ELSE IF rq.pending # NoError
         THEN [rq EXCEPT !.browser = "closed",
                         !.pending = NoError,
                         !.res = Catch(@, rq.route, rq.query.username, rq.pending),
                         !.pc = "done"]
         ELSE [rq EXCEPT !.browser = "closed",
                         !.pc = "done"])
    /\ processState' =
         ProcessAfter(processState,
                      outcome = "throw" /\ HandlerRejects(rq.res), dispatch,
                      processState = "running"
                        /\ \E other \in Requests : other.res.lateWrite)
    /\ UNCHANGED << cachedPuppeteer, apiRepos >>

\* No promise job is left: Node reports the unhandled rejection and ends
\* the process.  The handlers that wait are never resumed.
ProcessExit ==
    /\ processState = "exiting"
    /\ \A rq \in Requests : ~MicrotaskOnly(rq.pc)
    /\ processState' = "exited"
    /\ UNCHANGED << cachedPuppeteer, handlers, apiRepos >>

Next ==
    \/ \E rq \in Requests, rt \in Routes : \E q \in QueriesOf(rt) : Receive(rq, rt, q)
    \/ \E rq \in Requests, resp \in ApiResponses : ProfileResp(rq, resp)
    \/ \E rq \in Requests, kind \in BodyKinds : ProfileJson(rq, kind)
    \/ \E rq \in Requests, resp \in ApiResponses : ReposResp(rq, resp)
    \/ \E rq \in Requests, kind \in BodyKinds, body \in SampleArrays :
          ReposJson(rq, kind, body)
    \/ \E rq \in Requests, o \in ReadmeFetchOutcomes : ReadmeResp(rq, o)
    \/ \E rq \in Requests, o \in ReadmeBodyOutcomes : ReadmeJson(rq, o)
    \/ \E rq \in Requests, o \in Outcomes : RenderDone(rq, o)
    \/ \E rq \in Requests, o \in Outcomes : ImportDone(rq, o)
    \/ \E rq \in Requests : GetPuppeteerDone(rq)
    \/ \E rq \in Requests, o \in Outcomes : LaunchDone(rq, o)
    \/ \E rq \in Requests, o \in Outcomes : NewPageDone(rq, o)
    \/ \E rq \in Requests, o \in Outcomes : SetContentDone(rq, o)
    \/ \E rq \in Requests, o \in Outcomes : EmulateDone(rq, o)
    \/ \E rq \in Requests, o \in Outcomes : PdfDone(rq, o)
    \/ \E rq \in Requests, o \in Outcomes, d \in Dispatchers : CloseDone(rq, o, d)
    \/ ProcessExit

Spec == Init /\ [][Next]_vars

\* --------------------------------------- SpecRepos: any array, one request

\* While the body of the answer to the repositories call is read, the
\* endpoint puts one more repository in it; its name is its position.
ApiRepo(stars) ==
    /\ processState = "running"
    /\ \E rq \in Requests : rq.pc = "awaitReposJson"
    /\ Len(apiRepos) < MaxRepos
    /\ apiRepos' = Append(apiRepos, Repo(Len(apiRepos) + 1, stars))
    /\ UNCHANGED << cachedPuppeteer, handlers, processState >>

\* The one request of SpecRepos arrives.
ReceiveOne(rq) ==
    /\ \A other \in Requests : other.pc = "idle"
    /\ Receive(rq, "pdf", [has |-> TRUE, username |-> << "o", "c" >>])

NextRepos ==
    \/ \E rq \in Requests : ReceiveOne(rq)
    \/ \E rq \in Requests : ProfileResp(rq, [kind |-> "http", status |-> 200])
    \/ \E rq \in Requests : ProfileJson(rq, "http")
    \/ \E rq \in Requests : ReposResp(rq, [kind |-> "http", status |-> 200])
    \/ \E stars \in StarCounts : ApiRepo(stars)
    \/ \E rq \in Requests : ReposJson(rq, "http", apiRepos)

SpecRepos == Init /\ [][NextRepos]_vars

\* ----------------------------------------------------------- properties

Ok200 == [kind |-> "http", status |-> 200]
NullJson == [kind |-> "nulljson", status |-> 200]
Http404 == [kind |-> "http", status |-> 404]
NoCalls == [profile |-> 0, repos |-> 0, readme |-> 0]
NoUses == [render |-> 0, launch |-> 0, close |-> 0]

\* text contains part as a contiguous piece
Contains(text, part) ==
    \E i \in 0..(Len(text) - Len(part)) : SubSeq(text, i + 1, i + Len(part)) = part

Sent(rq, code) == rq.res.headersSent /\ rq.res.statusCode = code

\* C1 (as claimed): a /pdf handler that launched a browser has called
\* browser.close, once, by the time it finishes, and once the requests have
\* come to their end (the handler has finished, or the process has) no
\* browser launched by any request remains open.
C1_BrowserClosed ==
    \A rq \in Requests :
        ((rq.pc = "done" \/ processState = "exited") /\ rq.browser # "none")
            => /\ rq.uses.close = 1
               /\ rq.browser = "closed"

\* C2: a request without a username, or with an empty one, is answered 400
\* and makes no upstream call, renders nothing and launches no browser.
C2_MissingUsername400 ==
    \A rq \in Requests :
        (rq.pc # "idle" /\ (~rq.query.has \/ rq.query.username = << >>))
            => /\ rq.pc = "done"
               /\ Sent(rq, 400)
               /\ rq.calls = NoCalls
               /\ rq.uses = NoUses

\* One request with an empty username and one without username, /preview
\* and /pdf, were answered 400.
C2_Witness ==
    \E r1, r2 \in Requests :
        /\ r1.route = "preview" /\ r2.route = "pdf"
        /\ r1.query.has /\ r1.query.username = << >> /\ Sent(r1, 400)
        /\ ~r2.query.has /\ Sent(r2, 400)

\* C3: when the profile call is answered 404 the request is answered 404
\* with a message that contains the username, and no README call, no
\* rendering and no browser launch has happened for it.
C3_UnknownUser404 ==
    \A rq \in Requests :
        rq.answers.profile = Http404
            => /\ rq.pc = "done"
               /\ Sent(rq, 404)
               /\ Contains(rq.res.body, rq.query.username)
               /\ rq.calls.readme = 0
               /\ rq.uses = NoUses

\* A /preview and a /pdf request for an absent user were answered 404.
C3_Witness ==
    \E r1, r2 \in Requests :
        /\ r1.route = "preview" /\ r2.route = "pdf"
        /\ r1.answers.profile = Http404 /\ Sent(r1, 404)
        /\ r2.answers.profile = Http404 /\ Sent(r2, 404)

\* C4: whatever goes wrong inside fetchUserReadmeHtml, it returns the empty
\* string, as it does for a user without README content, and the request
\* goes on to the rendering: the README never fails a request.
C4_ReadmeNeverFails ==
    \A rq \in Requests :
        /\ "readme" \notin rq.failed
        /\ rq.readme.outcome \notin {"none", "ok"}
            => /\ rq.readme.html = ""
               /\ rq.pc = "awaitRender"
               /\ ~rq.res.headersSent
               /\ rq.failed = {}

\* The README call of one request failed on the network, the markdown
\* renderer threw for another; both are at the rendering.
C4_Witness ==
    \E r1, r2 \in Requests :
        /\ r1.readme.outcome = "neterr" /\ r1.pc = "awaitRender"
        /\ r2.readme.outcome = "markedThrows" /\ r2.pc = "awaitRender"

\* C5: when buildTemplateData has sorted the answer of the repositories
\* endpoint, topRepos has min(n, 10) entries, each an element of the answer,
\* in non-increasing order of stars; no omitted repository has more stars
\* than an included one; equal stars keep the order of the answer.
C5_TopRepos ==
    \A rq \in Requests :
      rq.pc = "awaitReadme" =>
        LET top == rq.topRepos IN
          /\ Len(top) = (IF Len(apiRepos) < 10 THEN Len(apiRepos) ELSE 10)
          /\ \A i \in 1..Len(top) :
                /\ top[i].name \in 1..Len(apiRepos)
                /\ top[i].stars = apiRepos[top[i].name].stargazers_count
          /\ \A i \in 1..Len(top), k \in 1..Len(top) :
                i < k => /\ top[i].name # top[k].name
                         /\ top[i].stars >= top[k].stars
                         /\ (top[i].stars = top[k].stars => top[i].name < top[k].name)
          /\ \A j \in 1..Len(apiRepos) :
                (\A i \in 1..Len(top) : top[i].name # j)
                  => \A i \in 1..Len(top) :
                        /\ apiRepos[j].stargazers_count <= top[i].stars
                        /\ (apiRepos[j].stargazers_count = top[i].stars
                              => top[i].name < j)

\* An answer of more than 10 repositories, not in order of stars and with
\* equal star counts, has been sorted and cut to its top 10.
C5_Witness ==
    \E rq \in Requests :
        /\ rq.pc = "awaitReadme"
        /\ Len(apiRepos) > 10
        /\ Len(rq.reposData) = Len(apiRepos)
        /\ Len(rq.topRepos) = 10
        /\ \E i, k \in 1..Len(apiRepos) :
              i < k /\ apiRepos[i].stargazers_count < apiRepos[k].stargazers_count
        /\ \E i, k \in 1..10 : i < k /\ rq.topRepos[i].stars = rq.topRepos[k].stars

\* C6 (as claimed): a request one of whose stages failed is answered with
\* an error only: no 200, no html or pdf body, no pdf headers.
C6_NoPartialOutput ==
    \A rq \in Requests :
        (rq.pc = "done" /\ rq.failed # {})
            => /\ rq.res.statusCode \in {404, 500}
               /\ rq.res.body \notin { << "html" >>, << "pdf" >> }
               /\ rq.res.contentType # "application/pdf"
               /\ rq.res.disposition = << >>

\* C7 (as claimed): a failure other than an upstream 404 is answered 500,
\* and a request with a username ends with status 200, 404 or 500.
C7_OtherFailure500 ==
    \A rq \in Requests :
        rq.pc = "done" /\ rq.query.has /\ rq.query.username # << >>
            => /\ rq.res.headersSent /\ rq.res.statusCode \in {200, 404, 500}
               /\ (rq.failed # {} /\ rq.answers.profile # Http404
                                  /\ rq.answers.repos # Http404)
                     => rq.res.statusCode = 500

\* C8: each upstream endpoint is called at most once per request; a
\* request succeeds only if the profile call and the repositories call
\* both succeeded, and a failed one ends the request with 404 or 500.
C8_NoRetry ==
    \A rq \in Requests :
        /\ rq.calls.profile <= 1 /\ rq.calls.repos <= 1 /\ rq.calls.readme <= 1
        /\ Sent(rq, 200) => rq.answers.profile = Ok200 /\ rq.answers.repos = Ok200
        /\ (rq.answers.profile \notin {NoAnswer, Ok200, NullJson}
              \/ rq.answers.repos \notin {NoAnswer, Ok200})
             => rq.pc = "done" /\ (Sent(rq, 404) \/ Sent(rq, 500))

\* A request whose repositories call was rate-limited ended with 500 after
\* one profile call and one repositories call; another one succeeded.
C8_Witness ==
    \E r1, r2 \in Requests :
        /\ r1.answers.repos = [kind |-> "http", status |-> 403]
        /\ r1.calls = [profile |-> 1, repos |-> 1, readme |-> 0]
        /\ Sent(r1, 500)
        /\ r2.pc = "done" /\ Sent(r2, 200)
        /\ r2.calls = [profile |-> 1, repos |-> 1, readme |-> 1]

\* C9 (as claimed): no module-level variable is written while a request is
\* handled: cachedPuppeteer, the one that is not a constant, has its
\* startup value after any sequence of requests.
C9_NoModuleState == cachedPuppeteer = "null"

\* C10 (as claimed): no handler writes a response after one has been sent.
C10_SingleResponse == \A rq \in Requests : ~rq.res.lateWrite

====
